---- MODULE Spec2Model ----
(***************************************************************************)
(* Wave-based top-down zombie shooter (COMP3016-CW1.cpp, second Game       *)
(* class, lines 629-909) as a state machine.                               *)
(*                                                                         *)
(* Numbers.  The program computes in float.  The model computes in fixed   *)
(* point: lengths in 1/PX of a pixel, times in milliseconds, unit vectors  *)
(* scaled by UNIT.  Every product is divided with truncation toward zero.  *)
(***************************************************************************)
EXTENDS Integers, Sequences, FiniteSets, TLC

\* ------------------------------------------------------------ bounds
\* The frame loop is followed until this much wall time (ms) has passed.
MaxTime == 5400
\* start_wave is examined for the wave numbers 1 .. MaxWave.
MaxWave == 20

\* ------------------------------------------------------------ number model
PX == 10          \* fixed-point units per pixel (Vec2 is a pair of floats)
UNIT == 1000      \* scale of a normalized vector
MS == 1000        \* milliseconds per second

Trunc(a, b) == IF a >= 0 THEN a \div b ELSE -((-a) \div b)
Max(a, b) == IF a >= b THEN a ELSE b
Min(a, b) == IF a <= b THEN a ELSE b
Clamp(v, lo, hi) == IF v < lo THEN lo ELSE IF hi < v THEN hi ELSE v

RECURSIVE SqrtIter(_, _, _)
SqrtIter(n, lo, hi) ==
    IF lo >= hi THEN lo
    ELSE LET mid == (lo + hi + 1) \div 2
         IN  IF mid * mid <= n THEN SqrtIter(n, mid, hi)
                               ELSE SqrtIter(n, lo, mid - 1)
\* floor of the square root, for arguments below 2^31
Sqrt(n) == SqrtIter(n, 0, 46340)

\* ------------------------------------------------------------ Vec2
Vec(X, Y) == [x |-> X, y |-> Y]
VAdd(a, b) == Vec(a.x + b.x, a.y + b.y)
VSub(a, b) == Vec(a.x - b.x, a.y - b.y)
\* operator*(float s), s given as the fraction num/den
VScale(a, num, den) == Vec(Trunc(a.x * num, den), Trunc(a.y * num, den))
VLen(a) == Sqrt(a.x * a.x + a.y * a.y)
\* L > 0.0001f: the smallest non-zero fixed-point length is 1/PX pixel
Unit(a, L) ==
    IF L > 0 THEN Vec(Trunc(a.x * UNIT, L), Trunc(a.y * UNIT, L)) ELSE Vec(0, 0)
Normalized(a) == Unit(a, VLen(a))

\* ------------------------------------------------------------ program constants
Width == 960
Height == 540
Margin == 20            \* clamp_to_arena: minX, minY
SpawnEdge == 18         \* spawn_zombie: distance of a spawn point from the border
PlayerRadius == 14
ZombieRadius == 14
BulletRadius == 4
PlayerSpeed == 220
PlayerHp == 3
ShootCooldown == 150    \* 0.15f s
BulletLifetime == 1200  \* 1.2f s
BulletSpeed == 520
MuzzleOffset == 18
KillScore == 10
GameOverAnimStart == 2000   \* 2.0f s
IntermissionTime == 3000    \* 3.0f s
FirstSpawnDelay == 250      \* 0.25f s
RetryDelay == 150           \* 0.15f s
MinSpawnInterval == 200     \* 0.20f s
WaveBaseTotal == 8
WaveTotalStep == 5
WaveBaseCap == 6
WaveCapStep == 2
WaveCapMax == 40
DecayPct == 92              \* 0.92f
SpeedStepPct == 6           \* 0.06f
MaxDt == 33                 \* main: dt = min(dt, 0.033f)

\* ------------------------------------------------------------ environment
\* data/waves.txt: absent (the defaults of WaveConfig) or a tuned file
DefaultConfig == [maxZombies |-> 20, zombieSpeed |-> 90, spawnIntervalSec |-> 1000]
TunedConfig == [maxZombies |-> 2, zombieSpeed |-> 90, spawnIntervalSec |-> 100]
Configs == {DefaultConfig, TunedConfig}

\* frame times the main loop hands to update
DtSet == {0, MaxDt}
\* the keyboard as SDL_GetKeyboardState reports it (W, S, A, D), held for the run
NoKeys == [W |-> FALSE, S |-> FALSE, A |-> FALSE, D |-> FALSE]
KeySets == {NoKeys, [NoKeys EXCEPT !.W = TRUE]}
\* the pointer as SDL_GetMouseState reports it (fixed point), at rest for the run:
\* above the player on the top edge, or on the spot where the player starts
MousePoints == {Vec(480 * PX, 18 * PX), Vec(480 * PX, 270 * PX)}
\* seeds std::random_device hands to the generator
Seeds == {0, 1}

VARIABLES
    now,                \* wall clock of the main loop (ms)
    cfg, kstate, mouse,
    player, zombies, bullets,
    running, surviveTime, score,
    baseZombieSpeed, baseSpawnInterval,
    currentWave, totalThisWave, spawnedThisWave, killedThisWave,
    simultaneousCap, pendingToSpawn, zombieSpeed, spawnInterval, spawnTimer,
    inIntermission, intermissionTimer,
    queuedShoot,
    rnd,                \* the generator: its seed and the number of draws made
    gameOverAnim,
    firing,             \* the user is clicking the left button, once per frame
    lastHit,            \* history: wall time of the latest loss of hp, -1 if none
    lastShot,           \* history: surviveTime at the end of the latest frame that
                        \* created a projectile, -1 if none in the last 0.15 s
    shooter             \* the weapon bookkeeping of the player (section 4.3)

gameVars == <<player, zombies, bullets, running, surviveTime, score,
              currentWave, totalThisWave, spawnedThisWave, killedThisWave,
              simultaneousCap, pendingToSpawn, zombieSpeed, spawnInterval,
              spawnTimer, inIntermission, intermissionTimer, rnd, gameOverAnim>>
confVars == <<cfg, kstate, mouse, baseZombieSpeed, baseSpawnInterval>>
vars == <<now, confVars, gameVars, queuedShoot, firing, lastHit, lastShot, shooter>>

\* The simulation state as one record, the value the steps of update thread.
Game == [player |-> player, zombies |-> zombies, bullets |-> bullets,
         running |-> running, surviveTime |-> surviveTime, score |-> score,
         currentWave |-> currentWave, totalThisWave |-> totalThisWave,
         spawnedThisWave |-> spawnedThisWave, killedThisWave |-> killedThisWave,
         simultaneousCap |-> simultaneousCap, pendingToSpawn |-> pendingToSpawn,
         zombieSpeed |-> zombieSpeed, spawnInterval |-> spawnInterval,
         spawnTimer |-> spawnTimer, inIntermission |-> inIntermission,
         intermissionTimer |-> intermissionTimer, rnd |-> rnd,
         gameOverAnim |-> gameOverAnim, queuedShoot |-> queuedShoot]

\* ------------------------------------------------------------ generator
\* std::mt19937 is a function of its seed and of the number of draws made.  The
\* model follows two seeds: under seed 0 every spawn is at the middle of the top
\* edge, under seed 1 the spawns go round the four edges at changing places.
\* uniform_int_distribution<int>(0, 3)(rnd)
DrawSide(r) == (r.seed * (r.n \div 2)) % 4
\* distX(rnd), distY(rnd): a point of [lo, hi], in quarters of the interval
DrawReal(r, lo, hi) == lo + ((hi - lo) * ((2 + r.seed * (r.n \div 2)) % 5)) \div 4
Drawn(r) == [r EXCEPT !.n = @ + 1]

\* ------------------------------------------------------------ entities
NewPlayer(p) ==
    [pos |-> p, vel |-> Vec(0, 0), radius |-> PlayerRadius * PX, alive |-> TRUE,
     hp |-> PlayerHp, shootTimer |-> 0, aimDir |-> Vec(UNIT, 0)]
NewZombie(p, s) ==
    [pos |-> p, vel |-> Vec(0, 0), radius |-> ZombieRadius * PX, alive |-> TRUE,
     speed |-> s]
NewBullet(p, v) ==
    [pos |-> p, vel |-> v, radius |-> BulletRadius * PX, alive |-> TRUE,
     lifetime |-> BulletLifetime, age |-> 0]

\* Entity::update: pos += vel * dt
EntityUpdate(e, dt) == [e EXCEPT !.pos = VAdd(e.pos, VScale(e.vel, dt, MS))]

\* variant: the age is tested before it is advanced
BulletUpdate_late(b, dt) ==
    EntityUpdate([b EXCEPT !.age = b.age + dt,
                           !.alive = IF b.age >= b.lifetime THEN FALSE ELSE @], dt)

\* Bullet::update
BulletUpdate(b, dt) ==
    EntityUpdate([b EXCEPT !.age = b.age + dt,
                           !.alive = IF b.age + dt >= b.lifetime THEN FALSE ELSE @], dt)

\* Zombie::steer_to
SteerTo(z, target) ==
    [z EXCEPT !.vel = VScale(Normalized(VSub(target, z.pos)), z.speed * PX, UNIT)]

\* Player::update_input
UpdateInput(p, dt, k, mx, my) ==
    LET ay == (IF k.S THEN 1 ELSE 0) - (IF k.W THEN 1 ELSE 0)
        ax == (IF k.D THEN 1 ELSE 0) - (IF k.A THEN 1 ELSE 0)
        acc == VScale(Normalized(Vec(ax, ay)), PlayerSpeed * PX, UNIT)
    IN  [p EXCEPT !.vel = acc,
                  !.aimDir = Normalized(VSub(Vec(mx, my), p.pos)),
                  !.shootTimer = Max(0, p.shootTimer - dt)]

can_shoot(p) == p.shootTimer <= 0
did_shoot(p) == [p EXCEPT !.shootTimer = ShootCooldown]

\* ------------------------------------------------------------ weapons
\* The revision with weapons and ammunition is not among the sources; this
\* section follows sections 3 and 4.3 of the specification.  A weapon is its
\* cooldown (1/fireRate, ms), its pelletCount and its ammoCapacity (-1 =
\* unlimited); the three instances are fallback, spread and rapid.
Weapons ==
    <<[name |-> "fallback", cooldown |-> 150, pelletCount |-> 1, ammoCapacity |-> -1],
      [name |-> "spread", cooldown |-> 99, pelletCount |-> 3, ammoCapacity |-> 2],
      [name |-> "rapid", cooldown |-> 66, pelletCount |-> 1, ammoCapacity |-> 3]>>

\* the player's bookkeeping at the start of a run: pellets is the number of
\* projectiles the latest try_shoot emitted, tried whether there was one
NewShooter ==
    [cooldown |-> 0, active |-> 1,
     ammo |-> [i \in 1 .. Len(Weapons) |-> Weapons[i].ammoCapacity],
     pellets |-> 0, tried |-> FALSE]

\* selecting a weapon is an index assignment
select_weapon(s, i) == [s EXCEPT !.active = i, !.pellets = 0, !.tried = FALSE]

\* the fire cooldown decrements toward zero every frame, floored at 0
cool_down(s, dt) == [s EXCEPT !.cooldown = Max(0, @ - dt), !.pellets = 0, !.tried = FALSE]

\* variant: the shot is refused only below zero, and every shot is paid for
try_shoot_below_zero(s) ==
    IF s.cooldown > 0 \/ s.ammo[s.active] < 0
    THEN [s EXCEPT !.pellets = 0, !.tried = TRUE]
    ELSE [s EXCEPT !.cooldown = Weapons[s.active].cooldown,
                   !.ammo[s.active] = @ - 1,
                   !.pellets = Weapons[s.active].pelletCount,
                   !.tried = TRUE]

\* try_shoot(): no-op if cooldown > 0 or the active weapon's remaining ammo is
\* exactly 0; otherwise reset the cooldown, pay one unit if the ammo is finite,
\* emit pelletCount projectiles
try_shoot(s) ==
    IF s.cooldown > 0 \/ s.ammo[s.active] = 0
    THEN [s EXCEPT !.pellets = 0, !.tried = TRUE]
    ELSE [s EXCEPT !.cooldown = Weapons[s.active].cooldown,
                   !.ammo[s.active] = IF @ > 0 THEN @ - 1 ELSE @,
                   !.pellets = Weapons[s.active].pelletCount,
                   !.tried = TRUE]

\* ------------------------------------------------------------ helpers of Game
\* variant: touching circles do not count
circle_hit_strict(a, ar, b, br) ==
    LET dx == a.x - b.x
        dy == a.y - b.y
        rr == (ar + br) * (ar + br)
    IN  dx * dx + dy * dy < rr

circle_hit(a, ar, b, br) ==
    LET dx == a.x - b.x
        dy == a.y - b.y
        rr == (ar + br) * (ar + br)
    IN  dx * dx + dy * dy <= rr

erase_dead(v) == SelectSeq(v, LAMBDA e : e.alive)

alive_zombies(zs) == Cardinality({i \in 1 .. Len(zs) : zs[i].alive})

\* variant: only x is clamped
clamp_x_only(e) ==
    [e EXCEPT !.pos = Vec(Clamp(e.pos.x, Margin * PX, (Width - Margin) * PX), e.pos.y)]

clamp_to_arena(e) ==
    [e EXCEPT !.pos = Vec(Clamp(e.pos.x, Margin * PX, (Width - Margin) * PX),
                          Clamp(e.pos.y, Margin * PX, (Height - Margin) * PX))]

\* the point spawn_zombie picks for a side and the second draw r
SpawnPoint(side, r) ==
    CASE side = 0 -> Vec(DrawReal(r, Margin * PX, (Width - Margin) * PX), SpawnEdge * PX)
      [] side = 1 -> Vec(DrawReal(r, Margin * PX, (Width - Margin) * PX),
                         (Height - SpawnEdge) * PX)
      [] side = 2 -> Vec(SpawnEdge * PX, DrawReal(r, Margin * PX, (Height - Margin) * PX))
      [] side = 3 -> Vec((Width - SpawnEdge) * PX,
                         DrawReal(r, Margin * PX, (Height - Margin) * PX))

spawn_zombie(g) ==
    [g EXCEPT !.zombies = Append(@, NewZombie(SpawnPoint(DrawSide(g.rnd), Drawn(g.rnd)),
                                              g.zombieSpeed)),
              !.rnd = Drawn(Drawn(@))]

RECURSIVE Decay(_, _)
\* base * 0.92^k
Decay(base, k) == IF k = 0 THEN base ELSE (Decay(base, k - 1) * DecayPct) \div 100

\* variant: the cap is not limited to WaveCapMax
start_wave_uncapped(g, wave, baseSpeed, baseInterval) ==
    [g EXCEPT !.currentWave = wave,
              !.totalThisWave = WaveBaseTotal + (wave - 1) * WaveTotalStep,
              !.simultaneousCap = WaveBaseCap + (wave - 1) * WaveCapStep,
              !.spawnInterval = Max(MinSpawnInterval, Decay(baseInterval, wave - 1)),
              !.zombieSpeed = (baseSpeed * (100 + SpeedStepPct * (wave - 1))) \div 100,
              !.spawnedThisWave = 0,
              !.killedThisWave = 0,
              !.pendingToSpawn = WaveBaseTotal + (wave - 1) * WaveTotalStep,
              !.spawnTimer = FirstSpawnDelay,
              !.inIntermission = FALSE]

\* variant: the kills of the wave before are carried over (line 869 missing)
start_wave_keeps_kills(g, wave, baseSpeed, baseInterval) ==
    [g EXCEPT !.currentWave = wave,
              !.totalThisWave = WaveBaseTotal + (wave - 1) * WaveTotalStep,
              !.simultaneousCap = Min(WaveBaseCap + (wave - 1) * WaveCapStep, WaveCapMax),
              !.spawnInterval = Max(MinSpawnInterval, Decay(baseInterval, wave - 1)),
              !.zombieSpeed = (baseSpeed * (100 + SpeedStepPct * (wave - 1))) \div 100,
              !.spawnedThisWave = 0,
              !.pendingToSpawn = WaveBaseTotal + (wave - 1) * WaveTotalStep,
              !.spawnTimer = FirstSpawnDelay,
              !.inIntermission = FALSE]

start_wave(g, wave, baseSpeed, baseInterval) ==
    [g EXCEPT !.currentWave = wave,
              !.totalThisWave = WaveBaseTotal + (wave - 1) * WaveTotalStep,
              !.simultaneousCap = Min(WaveBaseCap + (wave - 1) * WaveCapStep, WaveCapMax),
              !.spawnInterval = Max(MinSpawnInterval, Decay(baseInterval, wave - 1)),
              !.zombieSpeed = (baseSpeed * (100 + SpeedStepPct * (wave - 1))) \div 100,
              !.spawnedThisWave = 0,
              !.killedThisWave = 0,
              !.pendingToSpawn = WaveBaseTotal + (wave - 1) * WaveTotalStep,
              !.spawnTimer = FirstSpawnDelay,
              !.inIntermission = FALSE]

\* ------------------------------------------------------------ Game::update
\* lines 667-672: intermission timer
\* variant: the timer is tested before it is decremented
StepIntermission_late(g, dt, baseSpeed, baseInterval) ==
    IF g.inIntermission
    THEN IF g.intermissionTimer <= 0
         THEN start_wave([g EXCEPT !.intermissionTimer = @ - dt],
                         g.currentWave + 1, baseSpeed, baseInterval)
         ELSE [g EXCEPT !.intermissionTimer = @ - dt]
    ELSE g

StepIntermission(g, dt, baseSpeed, baseInterval) ==
    IF g.inIntermission
    THEN IF g.intermissionTimer - dt <= 0
         THEN start_wave([g EXCEPT !.intermissionTimer = @ - dt],
                         g.currentWave + 1, baseSpeed, baseInterval)
         ELSE [g EXCEPT !.intermissionTimer = @ - dt]
    ELSE g

\* lines 676-682: shooting
Fire(g, dir) ==
    [g EXCEPT !.bullets = Append(@, NewBullet(
                              VAdd(g.player.pos, VScale(dir, MuzzleOffset * PX, UNIT)),
                              VScale(dir, BulletSpeed * PX, UNIT))),
              !.player = did_shoot(@)]

\* variant: the cooldown is not consulted
StepShoot_no_cooldown(g, mx, my) ==
    IF g.queuedShoot
    THEN [Fire(g, Normalized(VSub(Vec(mx, my), g.player.pos))) EXCEPT
              !.queuedShoot = FALSE]
    ELSE [g EXCEPT !.queuedShoot = FALSE]

\* variant: a request the cooldown refuses stays queued
StepShoot_keeps_refused(g, mx, my) ==
    IF g.queuedShoot /\ can_shoot(g.player)
    THEN [Fire(g, Normalized(VSub(Vec(mx, my), g.player.pos))) EXCEPT
              !.queuedShoot = FALSE]
    ELSE g

StepShoot(g, mx, my) ==
    IF g.queuedShoot /\ can_shoot(g.player)
    THEN [Fire(g, Normalized(VSub(Vec(mx, my), g.player.pos))) EXCEPT
              !.queuedShoot = FALSE]
    ELSE [g EXCEPT !.queuedShoot = FALSE]

\* lines 684-696: spawning for the current wave
\* variant: the spawner of the earlier revision (line 186), gated by the timer
\* and the cap alone
StepSpawn_ungated(g, dt) ==
    IF g.spawnTimer - dt <= 0
    THEN IF alive_zombies(g.zombies) < g.simultaneousCap
         THEN [spawn_zombie(g) EXCEPT
                   !.pendingToSpawn = @ - 1,
                   !.spawnedThisWave = @ + 1,
                   !.spawnTimer = g.spawnInterval]
         ELSE [g EXCEPT !.spawnTimer = RetryDelay]
    ELSE [g EXCEPT !.spawnTimer = @ - dt]

\* variant: a spawn is allowed with the cap already reached
StepSpawn_cap_inclusive(g, dt) ==
    IF ~g.inIntermission /\ g.pendingToSpawn > 0 /\ g.spawnTimer - dt <= 0
    THEN IF alive_zombies(g.zombies) <= g.simultaneousCap
         THEN [spawn_zombie(g) EXCEPT
                   !.pendingToSpawn = @ - 1,
                   !.spawnedThisWave = @ + 1,
                   !.spawnTimer = g.spawnInterval]
         ELSE [g EXCEPT !.spawnTimer = RetryDelay]
    ELSE [g EXCEPT !.spawnTimer = @ - dt]

\* variant: a blocked spawn uses up its slot and waits a whole interval
StepSpawn_blocked_pays(g, dt) ==
    IF ~g.inIntermission /\ g.pendingToSpawn > 0 /\ g.spawnTimer - dt <= 0
    THEN IF alive_zombies(g.zombies) < g.simultaneousCap
         THEN [spawn_zombie(g) EXCEPT
                   !.pendingToSpawn = @ - 1,
                   !.spawnedThisWave = @ + 1,
                   !.spawnTimer = g.spawnInterval]
         ELSE [g EXCEPT !.pendingToSpawn = @ - 1, !.spawnTimer = g.spawnInterval]
    ELSE [g EXCEPT !.spawnTimer = @ - dt]

\* variant: the timer is not decremented (line 685 missing)
StepSpawn_timer_stuck(g, dt) ==
    IF ~g.inIntermission /\ g.pendingToSpawn > 0 /\ g.spawnTimer <= 0
    THEN IF alive_zombies(g.zombies) < g.simultaneousCap
         THEN [spawn_zombie(g) EXCEPT
                   !.pendingToSpawn = @ - 1,
                   !.spawnedThisWave = @ + 1,
                   !.spawnTimer = g.spawnInterval]
         ELSE [g EXCEPT !.spawnTimer = RetryDelay]
    ELSE g

\* variant: the quota is not consulted
StepSpawn_no_quota(g, dt) ==
    IF ~g.inIntermission /\ g.spawnTimer - dt <= 0
    THEN IF alive_zombies(g.zombies) < g.simultaneousCap
         THEN [spawn_zombie(g) EXCEPT
                   !.pendingToSpawn = @ - 1,
                   !.spawnedThisWave = @ + 1,
                   !.spawnTimer = g.spawnInterval]
         ELSE [g EXCEPT !.spawnTimer = RetryDelay]
    ELSE [g EXCEPT !.spawnTimer = @ - dt]

\* variant: with room for two under the cap, two pending enemies are released
StepSpawn_burst(g, dt) ==
    IF ~g.inIntermission /\ g.pendingToSpawn > 0 /\ g.spawnTimer - dt <= 0
    THEN IF alive_zombies(g.zombies) < g.simultaneousCap
         THEN IF g.pendingToSpawn > 1 /\ alive_zombies(g.zombies) + 1 < g.simultaneousCap
              THEN [spawn_zombie(spawn_zombie(g)) EXCEPT
                        !.pendingToSpawn = @ - 2,
                        !.spawnedThisWave = @ + 2,
                        !.spawnTimer = g.spawnInterval]
              ELSE [spawn_zombie(g) EXCEPT
                        !.pendingToSpawn = @ - 1,
                        !.spawnedThisWave = @ + 1,
                        !.spawnTimer = g.spawnInterval]
         ELSE [g EXCEPT !.spawnTimer = RetryDelay]
    ELSE [g EXCEPT !.spawnTimer = @ - dt]

\* variant: a spawn leaves pendingToSpawn alone (line 689 missing)
StepSpawn_pending_kept(g, dt) ==
    IF ~g.inIntermission /\ g.pendingToSpawn > 0 /\ g.spawnTimer - dt <= 0
    THEN IF alive_zombies(g.zombies) < g.simultaneousCap
         THEN [spawn_zombie(g) EXCEPT
                   !.spawnedThisWave = @ + 1,
                   !.spawnTimer = g.spawnInterval]
         ELSE [g EXCEPT !.spawnTimer = RetryDelay]
    ELSE [g EXCEPT !.spawnTimer = @ - dt]

StepSpawn(g, dt) ==
    IF ~g.inIntermission /\ g.pendingToSpawn > 0 /\ g.spawnTimer - dt <= 0
    THEN IF alive_zombies(g.zombies) < g.simultaneousCap
         THEN [spawn_zombie(g) EXCEPT
                   !.pendingToSpawn = @ - 1,
                   !.spawnedThisWave = @ + 1,
                   !.spawnTimer = g.spawnInterval]
         ELSE [g EXCEPT !.spawnTimer = RetryDelay]
    ELSE [g EXCEPT !.spawnTimer = @ - dt]

\* lines 698-707: update entities
MoveOthers(g, p, dt) ==
    [g EXCEPT
        !.player = p,
        !.zombies = [i \in 1 .. Len(g.zombies) |->
                        clamp_to_arena(EntityUpdate(SteerTo(g.zombies[i], p.pos), dt))],
        !.bullets = [i \in 1 .. Len(g.bullets) |-> BulletUpdate(g.bullets[i], dt)]]

StepEntities(g, dt) == MoveOthers(g, clamp_to_arena(EntityUpdate(g.player, dt)), dt)

RECURSIVE BulletsVsZombies_no_alive_test(_, _, _)
\* variant: the pairs are not tested for being alive
BulletsVsZombies_no_alive_test(g, i, j) ==
    IF i > Len(g.zombies) THEN g
    ELSE IF j > Len(g.bullets) THEN BulletsVsZombies_no_alive_test(g, i + 1, 1)
    ELSE IF circle_hit(g.zombies[i].pos, g.zombies[i].radius,
                       g.bullets[j].pos, g.bullets[j].radius)
         THEN BulletsVsZombies_no_alive_test(
                  [g EXCEPT !.zombies[i].alive = FALSE,
                            !.bullets[j].alive = FALSE,
                            !.score = @ + KillScore,
                            !.killedThisWave = @ + 1], i, j + 1)
         ELSE BulletsVsZombies_no_alive_test(g, i, j + 1)

RECURSIVE BulletsVsZombies(_, _, _)
\* lines 709-720: zombie i (outer loop) against bullet j (inner loop)
BulletsVsZombies(g, i, j) ==
    IF i > Len(g.zombies) THEN g
    ELSE IF j > Len(g.bullets) THEN BulletsVsZombies(g, i + 1, 1)
    ELSE IF g.zombies[i].alive /\ g.bullets[j].alive
            /\ circle_hit(g.zombies[i].pos, g.zombies[i].radius,
                          g.bullets[j].pos, g.bullets[j].radius)
         THEN BulletsVsZombies([g EXCEPT !.zombies[i].alive = FALSE,
                                             !.bullets[j].alive = FALSE,
                                             !.score = @ + KillScore,
                                         !.killedThisWave = @ + 1], i, j + 1)
         ELSE BulletsVsZombies(g, i, j + 1)

\* variant: the run ends only below zero
Touch_below_zero(g, i) ==
    IF g.player.hp - 1 < 0
    THEN [g EXCEPT !.zombies[i].alive = FALSE, !.player.hp = @ - 1,
                   !.running = FALSE, !.gameOverAnim = GameOverAnimStart]
    ELSE [g EXCEPT !.zombies[i].alive = FALSE, !.player.hp = @ - 1]

\* lines 724-729: zombie i touches the player
Touch(g, i) ==
    IF g.player.hp - 1 <= 0
    THEN [g EXCEPT !.zombies[i].alive = FALSE, !.player.hp = @ - 1,
                   !.running = FALSE, !.gameOverAnim = GameOverAnimStart]
    ELSE [g EXCEPT !.zombies[i].alive = FALSE, !.player.hp = @ - 1]

RECURSIVE ZombiesVsPlayer(_, _)
\* lines 721-731
ZombiesVsPlayer(g, i) ==
    IF i > Len(g.zombies) THEN g
    ELSE IF g.zombies[i].alive
            /\ circle_hit(g.zombies[i].pos, g.zombies[i].radius,
                          g.player.pos, g.player.radius)
         THEN ZombiesVsPlayer(Touch(g, i), i + 1)
         ELSE ZombiesVsPlayer(g, i + 1)

\* lines 733-735
\* variant: the enemies are not reaped (line 735 missing)
StepCleanup_bullets_only(g) ==
    [g EXCEPT !.bullets = erase_dead(@)]

StepCleanup(g) ==
    [g EXCEPT !.bullets = erase_dead(@), !.zombies = erase_dead(@)]

\* variant: the kills are not counted
StepWaveCheck_spawned_only(g) ==
    IF ~g.inIntermission
       /\ g.spawnedThisWave >= g.totalThisWave
       /\ alive_zombies(g.zombies) = 0
    THEN [g EXCEPT !.inIntermission = TRUE, !.intermissionTimer = IntermissionTime]
    ELSE g

\* lines 737-745: wave completion check
StepWaveCheck(g) ==
    IF ~g.inIntermission
       /\ g.spawnedThisWave >= g.totalThisWave
       /\ g.killedThisWave >= g.totalThisWave
       /\ alive_zombies(g.zombies) = 0
    THEN [g EXCEPT !.inIntermission = TRUE, !.intermissionTimer = IntermissionTime]
    ELSE g

\* lines 747-748
StepTail(g, dt) ==
    IF ~g.running
    THEN [g EXCEPT !.surviveTime = @ + dt, !.gameOverAnim = Max(0, @ - dt)]
    ELSE [g EXCEPT !.surviveTime = @ + dt]

\* Game::update, lines 664-749, on a running game
StepInput(g, dt, k, mx, my) == [g EXCEPT !.player = UpdateInput(@, dt, k, mx, my)]

\* lines 667-696: timers, input, shooting, spawning
Before(g, dt, k, mx, my, baseSpeed, baseInterval) ==
    StepSpawn(StepShoot(StepInput(StepIntermission(g, dt, baseSpeed, baseInterval),
                                  dt, k, mx, my),
                        mx, my),
              dt)

\* lines 698-731: motion and collisions
Collide(g, dt) == ZombiesVsPlayer(BulletsVsZombies(StepEntities(g, dt), 1, 1), 1)

\* lines 733-748: cleanup, wave completion, survive time
After(g, dt) == StepTail(StepWaveCheck(StepCleanup(g)), dt)

\* lines 667-748: one frame of a running game
Simulate(g, dt, k, mx, my, baseSpeed, baseInterval) ==
    After(Collide(Before(g, dt, k, mx, my, baseSpeed, baseInterval), dt), dt)

\* variant: no early return
update_always(g, dt, k, mx, my, baseSpeed, baseInterval) ==
    Simulate(g, dt, k, mx, my, baseSpeed, baseInterval)

\* Game::update, lines 664-749
update(g, dt, k, mx, my, baseSpeed, baseInterval) ==
    IF ~g.running THEN g ELSE Simulate(g, dt, k, mx, my, baseSpeed, baseInterval)

\* ------------------------------------------------------------ state machine
\* Game::Game, lines 632-652, for a window of Width x Height
Init ==
    /\ now = 0
    /\ cfg \in Configs
    /\ kstate \in KeySets
    /\ mouse \in MousePoints
    /\ rnd \in [seed : Seeds, n : {0}]
    /\ baseSpawnInterval = cfg.spawnIntervalSec
    /\ baseZombieSpeed = cfg.zombieSpeed
    /\ firing = TRUE
    /\ lastHit = -1
    /\ lastShot = -1
    /\ shooter = NewShooter
    /\ LET g0 == [player |-> NewPlayer(Vec((Width * PX) \div 2, (Height * PX) \div 2)),
                  zombies |-> << >>, bullets |-> << >>,
                  running |-> TRUE, surviveTime |-> 0, score |-> 0,
                  currentWave |-> 1, totalThisWave |-> 0, spawnedThisWave |-> 0,
                  killedThisWave |-> 0, simultaneousCap |-> WaveBaseCap,
                  pendingToSpawn |-> 0, zombieSpeed |-> 90, spawnInterval |-> 1000,
                  spawnTimer |-> 0, inIntermission |-> FALSE, intermissionTimer |-> 0,
                  rnd |-> rnd, gameOverAnim |-> 0, queuedShoot |-> FALSE]
           g == start_wave(g0, 1, cfg.zombieSpeed, cfg.spawnIntervalSec)
       IN  /\ player = g.player
           /\ zombies = g.zombies
           /\ bullets = g.bullets
           /\ running = g.running
           /\ surviveTime = g.surviveTime
           /\ score = g.score
           /\ currentWave = g.currentWave
           /\ totalThisWave = g.totalThisWave
           /\ spawnedThisWave = g.spawnedThisWave
           /\ killedThisWave = g.killedThisWave
           /\ simultaneousCap = g.simultaneousCap
           /\ pendingToSpawn = g.pendingToSpawn
           /\ zombieSpeed = g.zombieSpeed
           /\ spawnInterval = g.spawnInterval
           /\ spawnTimer = g.spawnTimer
           /\ inIntermission = g.inIntermission
           /\ intermissionTimer = g.intermissionTimer
           /\ gameOverAnim = g.gameOverAnim
           /\ queuedShoot = g.queuedShoot

\* the fields of g written back to the program's variables
Store(g) ==
    /\ player' = g.player
    /\ zombies' = g.zombies
    /\ bullets' = g.bullets
    /\ running' = g.running
    /\ surviveTime' = g.surviveTime
    /\ score' = g.score
    /\ currentWave' = g.currentWave
    /\ totalThisWave' = g.totalThisWave
    /\ spawnedThisWave' = g.spawnedThisWave
    /\ killedThisWave' = g.killedThisWave
    /\ simultaneousCap' = g.simultaneousCap
    /\ pendingToSpawn' = g.pendingToSpawn
    /\ zombieSpeed' = g.zombieSpeed
    /\ spawnInterval' = g.spawnInterval
    /\ spawnTimer' = g.spawnTimer
    /\ inIntermission' = g.inIntermission
    /\ intermissionTimer' = g.intermissionTimer
    /\ rnd' = g.rnd
    /\ gameOverAnim' = g.gameOverAnim
    /\ queuedShoot' = g.queuedShoot
    /\ lastHit' = IF g.player.hp < player.hp THEN now' ELSE lastHit

\* Game::handle_event for a left mouse button press
HandleEvent ==
    /\ firing
    /\ ~queuedShoot
    /\ queuedShoot' = TRUE
    /\ UNCHANGED <<now, confVars, gameVars, firing, lastHit, lastShot, shooter>>

\* The user stops clicking, for the rest of the run.
Release ==
    /\ firing
    /\ ~queuedShoot
    /\ firing' = FALSE
    /\ UNCHANGED <<now, confVars, gameVars, queuedShoot, lastHit, lastShot, shooter>>

\* the frame about to run creates a projectile (line 679)
Fired(dt) ==
    /\ running
    /\ Len(Before(Game, dt, kstate, mouse.x, mouse.y,
                  baseZombieSpeed, baseSpawnInterval).bullets) > Len(bullets)

\* One turn of the main loop (lines 943-964): the clock advances by dt and
\* Game::update runs with the polled keyboard and pointer.
Tick(dt) ==
    /\ now < MaxTime
    /\ firing => queuedShoot
    /\ now' = now + dt
    /\ lastShot' = IF Fired(dt) THEN surviveTime + dt
                   ELSE IF running /\ surviveTime + dt - lastShot >= ShootCooldown THEN -1
                   ELSE lastShot
    /\ UNCHANGED <<confVars, firing, shooter>>
    /\ Store(update(Game, dt, kstate, mouse.x, mouse.y,
                    baseZombieSpeed, baseSpawnInterval))

Frame == \E dt \in DtSet : Tick(dt)

Next == HandleEvent \/ Release \/ Frame

Spec == Init /\ [][Next]_vars

\* The frame loop with its scheduling: the loop of main never stops on its own,
\* the clock keeps moving (frames of positive dt keep arriving), and a user who
\* is clicking either clicks again or stops.
\* TimePasses is the step Tick(MaxDt) as the clock shows it, Clicks the step
\* HandleEvent or Release as the input shows it.
TimePasses == now < MaxTime /\ (firing => queuedShoot) /\ now' = now + MaxDt
Clicks ==
    /\ firing /\ ~queuedShoot
    /\ \/ queuedShoot' = TRUE /\ firing' = firing
       \/ queuedShoot' = queuedShoot /\ firing' = FALSE
LiveSpec == Spec /\ WF_<<queuedShoot, firing>>(Clicks) /\ SF_now(TimePasses)

\* ------------------------------------------------------------ weapon machine
\* The weapon bookkeeping on its own: the game stands as constructed while the
\* player selects weapons, pulls the trigger and lets frames pass.
SelectWeapon(i) ==
    /\ shooter' = select_weapon(shooter, i)
    /\ UNCHANGED <<now, confVars, gameVars, queuedShoot, firing, lastHit, lastShot>>

TryShoot ==
    /\ shooter' = try_shoot(shooter)
    /\ UNCHANGED <<now, confVars, gameVars, queuedShoot, firing, lastHit, lastShot>>

CoolDown(dt) ==
    /\ shooter' = cool_down(shooter, dt)
    /\ UNCHANGED <<now, confVars, gameVars, queuedShoot, firing, lastHit, lastShot>>

WeaponNext ==
    \/ \E i \in 1 .. Len(Weapons) : SelectWeapon(i)
    \/ TryShoot
    \/ CoolDown(MaxDt)

WeaponSpec == Init /\ [][WeaponNext]_vars

\* ------------------------------------------------------------ properties
hp == player.hp
\* the time Game::update was given in this step
StepDt == now' - now

\* C1: a step takes the scheduler from ACTIVE to INTERMISSION only if, after it,
\* spawnedThisWave = totalThisWave, killedThisWave >= totalThisWave and no
\* enemy is alive.
C1_IntermissionOnlyWhenCleared ==
    [][(~inIntermission /\ inIntermission') =>
          /\ spawnedThisWave' = totalThisWave'
          /\ killedThisWave' >= totalThisWave'
          /\ alive_zombies(zombies') = 0]_vars
\* the frame that entered intermission
C1_Witness ==
    inIntermission /\ intermissionTimer = 3000 /\ killedThisWave = totalThisWave

\* C2 (as claimed): a live run with the whole quota spawned and no enemy left
\* is in intermission at the end of the frame.
C2_ClearedWaveEnds ==
    (running /\ pendingToSpawn = 0 /\ alive_zombies(zombies) = 0) => inIntermission

\* C3: start_wave(n) leaves currentWave = n, totalThisWave = 8 + 5(n-1),
\* simultaneousCap = min(6 + 2(n-1), 40), spawnedThisWave = killedThisWave = 0,
\* pendingToSpawn = totalThisWave, spawnTimer = 0.25 s, inIntermission = FALSE:
\* for the wave the constructor starts, for every wave the run starts, and for
\* start_wave(n) applied to every reachable state, n in 1 .. MaxWave.
WaveStarted(w, n) ==
    /\ w.currentWave = n
    /\ w.totalThisWave = 8 + 5 * (n - 1)
    /\ w.simultaneousCap = Min(6 + 2 * (n - 1), 40)
    /\ w.spawnedThisWave = 0
    /\ w.killedThisWave = 0
    /\ w.pendingToSpawn = w.totalThisWave
    /\ w.spawnTimer = 250
    /\ w.inIntermission = FALSE
C3_StartWave ==
    /\ now = 0 => WaveStarted(Game, 1)
    /\ totalThisWave = 8 + 5 * (currentWave - 1)
    /\ simultaneousCap = Min(6 + 2 * (currentWave - 1), 40)
    /\ \A n \in 1 .. MaxWave :
           WaveStarted(start_wave(Game, n, baseZombieSpeed, baseSpawnInterval), n)
\* the end of the frame that started wave 2
C3_Witness ==
    /\ currentWave = 2 /\ pendingToSpawn = 13 /\ spawnedThisWave = 0
    /\ spawnTimer = 250 - MaxDt

\* C4: intermission starts with intermissionTimer = 3.0 s; the timer falls by the
\* frame time; the wave number changes only by the step that takes the timer to
\* 0 or below, and then to currentWave + 1; that step is never missed; wave 2 has
\* 13 enemies.
C4_Step ==
    /\ (~inIntermission /\ inIntermission') => intermissionTimer' = 3000
    /\ (inIntermission /\ inIntermission') =>
           /\ intermissionTimer' = intermissionTimer - StepDt
           /\ intermissionTimer' > 0
           /\ currentWave' = currentWave
    /\ (inIntermission /\ ~inIntermission') =>
           /\ intermissionTimer - StepDt <= 0
           /\ currentWave' = currentWave + 1
    /\ currentWave' # currentWave => inIntermission /\ ~inIntermission'
    /\ currentWave' = 2 => totalThisWave' = 13
C4_IntermissionLastsThreeSeconds == [][C4_Step]_vars
\* wave 2 running after the eight kills of wave 1
C4_Witness == currentWave = 2 /\ totalThisWave = 13 /\ score = 80 /\ intermissionTimer <= 0

\* C5: once running is false it stays false, and no step changes the player, the
\* enemies, the projectiles, score, surviveTime or the wave scheduler.
C5_GameOverIsTerminal ==
    [][~running =>
          /\ ~running'
          /\ UNCHANGED <<player, zombies, bullets, score, surviveTime,
                         currentWave, totalThisWave, spawnedThisWave, killedThisWave,
                         simultaneousCap, pendingToSpawn, zombieSpeed, spawnInterval,
                         spawnTimer, inIntermission, intermissionTimer>>]_vars
\* update has been called after the run ended
C5_Witness == ~running /\ now > surviveTime

\* C6: hp starts at 3, never rises, and falls by one for each enemy removed by
\* touching the player (an enemy removed and not paid for by score); running
\* turns false in the step that takes hp to 0 or below, never turns true again,
\* and running = (hp > 0) in every state.
C6_Step ==
    /\ hp' <= hp
    /\ hp - hp' = (Len(zombies) + (rnd'.n - rnd.n) \div 2 - Len(zombies'))
                   - (score' - score) \div 10
    /\ ~running => ~running'
    /\ (running /\ ~running') => (hp > 0 /\ hp' <= 0)
C6_HpAndRunning ==
    /\ [](running = (hp > 0))
    /\ [](now = 0 => hp = 3)
    /\ [][C6_Step]_vars
\* the third contact has ended the run
C6_Witness == ~running /\ hp = 0 /\ score = 0 /\ lastHit = now

\* C7 (as claimed): hp falls by at most one in a step, and not within 0.6 s of
\* the fall before.
C7_DamageCooldown ==
    [][hp' < hp =>
          /\ hp' = hp - 1
          /\ lastHit < 0 \/ now' - lastHit >= 600]_vars

\* C8: the player and every enemy are inside [20, width - 20] x [20, height - 20].
InArena(e) ==
    /\ 20 * PX <= e.pos.x /\ e.pos.x <= (Width - 20) * PX
    /\ 20 * PX <= e.pos.y /\ e.pos.y <= (Height - 20) * PX
C8_EntitiesInArena ==
    InArena(player) /\ \A i \in 1 .. Len(zombies) : InArena(zombies[i])
\* the player is pushing against the top edge and an enemy stands on an edge
C8_Witness ==
    /\ player.pos.y = 20 * PX /\ player.vel.y < 0
    /\ \E i \in 1 .. Len(zombies) : zombies[i].pos.y = 20 * PX

\* C9 (as claimed): no more enemies are alive than the configured maxZombies.
C9_AtMostMaxZombies == alive_zombies(zombies) <= cfg.maxZombies

\* C10 (as claimed): after the run has ended every frame lowers gameOverAnim by
\* its dt, down to 0.
C10_OverlayDecays ==
    [][(~running /\ StepDt > 0) => gameOverAnim' = Max(0, gameOverAnim - StepDt)]_vars
\* C11: a try_shoot with the active weapon's ammo at exactly 0 emits no
\* projectile and leaves the cooldown as it was; a shot with finite ammo > 0
\* costs exactly one unit of the active weapon and none of the others; ammo
\* never leaves -1 (unlimited) or 0 .. capacity.
C11_Refused(s, r) ==
    s.ammo[s.active] = 0 => r.pellets = 0 /\ r.cooldown = s.cooldown /\ r.ammo = s.ammo
C11_Paid(s, r) ==
    (s.ammo[s.active] > 0 /\ r.pellets > 0) =>
        /\ r.ammo[s.active] = s.ammo[s.active] - 1
        /\ \A i \in 1 .. Len(Weapons) : i # s.active => r.ammo[i] = s.ammo[i]
C11_AmmoBookkeeping ==
    /\ C11_Refused(shooter, try_shoot(shooter))
    /\ C11_Paid(shooter, try_shoot(shooter))
    /\ (shooter.ammo[shooter.active] > 0 /\ shooter.cooldown = 0) =>
           try_shoot(shooter).pellets = Weapons[shooter.active].pelletCount
    /\ \A i \in 1 .. Len(Weapons) :
           IF Weapons[i].ammoCapacity < 0 THEN shooter.ammo[i] = -1
           ELSE shooter.ammo[i] \in 0 .. Weapons[i].ammoCapacity
\* the trigger was pulled on an empty weapon whose cooldown had run out
C11_Witness ==
    /\ shooter.tried /\ shooter.pellets = 0
    /\ shooter.ammo[shooter.active] = 0 /\ shooter.cooldown = 0
\* C12: a frame of a live run that is still in intermission after its timer step
\* creates no enemy (the enemy collection does not grow, the generator is not
\* drawn from) and leaves pendingToSpawn and spawnedThisWave as they were.
C12_NoSpawnInIntermission ==
    [][(running /\ inIntermission /\ intermissionTimer - StepDt > 0) =>
          /\ Len(zombies') <= Len(zombies)
          /\ rnd' = rnd
          /\ pendingToSpawn' = pendingToSpawn
          /\ spawnedThisWave' = spawnedThisWave]_vars
\* frames have passed in intermission with the spawn timer run out
C12_Witness ==
    /\ running /\ inIntermission /\ intermissionTimer < 3000
    /\ spawnTimer <= 0 /\ zombies = << >>

\* C13 (as claimed): a frame with the pointer on the player's position leaves the
\* aim direction as it was; the aim direction is never the zero vector, and no
\* projectile in flight has the zero velocity.
C13_AimHeldWhenDegenerate ==
    [][(running /\ queuedShoot' = FALSE /\ firing' = firing) =>
          /\ mouse = player.pos => player'.aimDir = player.aimDir
          /\ player'.aimDir # Vec(0, 0)
          /\ \A i \in 1 .. Len(bullets') : bullets'[i].vel # Vec(0, 0)]_vars

\* C14: circle_hit gives the same answer with its two circles exchanged, and is
\* true exactly when the squared distance of the centres is at most the square
\* of the sum of the radii: for the player, every enemy and every projectile of
\* the state taken in pairs, and for two circles of radius 1 with centres 0, 1,
\* 2 (tangent) and 3 apart.
Circles ==
    {<<player.pos, player.radius>>}
    \cup {<<zombies[i].pos, zombies[i].radius>> : i \in 1 .. Len(zombies)}
    \cup {<<bullets[i].pos, bullets[i].radius>> : i \in 1 .. Len(bullets)}
    \cup {<<Vec(d * PX, 0), PX>> : d \in 0 .. 3}
SquaredDistance(a, b) == (a.x - b.x) * (a.x - b.x) + (a.y - b.y) * (a.y - b.y)
C14_CircleHit ==
    /\ \A c, d \in Circles :
           /\ circle_hit(c[1], c[2], d[1], d[2]) = circle_hit(d[1], d[2], c[1], c[2])
           /\ circle_hit(c[1], c[2], d[1], d[2])
                  = (SquaredDistance(c[1], d[1]) <= (c[2] + d[2]) * (c[2] + d[2]))
    /\ circle_hit(Vec(0, 0), PX, Vec(2 * PX, 0), PX)
    /\ ~circle_hit(Vec(0, 0), PX, Vec(3 * PX, 0), PX)
\* a projectile just fired in a frame of dt = 0 touches the player's circle
C14_Witness ==
    \E i \in 1 .. Len(bullets) :
        SquaredDistance(bullets[i].pos, player.pos)
            = (bullets[i].radius + player.radius) * (bullets[i].radius + player.radius)
\* C15: the projectile-enemy pass (lines 709-720) kills as many enemies as
\* projectiles, adds 10 to score and 1 to killedThisWave for each, moves and
\* revives nothing, kills only overlapping pairs, and leaves no live projectile
\* overlapping a live enemy: for the pass of the next frame of every reachable
\* state, and for two enemies and two projectiles placed so that one projectile
\* overlaps both enemies, both projectiles overlap one enemy, or nothing overlaps.
Dead(v) == {i \in 1 .. Len(v) : ~v[i].alive}
Overlap(z, b) == SquaredDistance(z.pos, b.pos) <= (z.radius + b.radius) * (z.radius + b.radius)
\* the game as the pass of the next frame finds it
PassIn(dt) ==
    StepEntities(Before(Game, dt, kstate, mouse.x, mouse.y,
                        baseZombieSpeed, baseSpawnInterval), dt)
\* a is the game before the pass, b the game after it
C15_PassOk(a, b) ==
    /\ Len(b.zombies) = Len(a.zombies) /\ Len(b.bullets) = Len(a.bullets)
    /\ \A i \in 1 .. Len(a.zombies) :
           /\ [b.zombies[i] EXCEPT !.alive = TRUE] = [a.zombies[i] EXCEPT !.alive = TRUE]
           /\ b.zombies[i].alive => a.zombies[i].alive
    /\ \A j \in 1 .. Len(a.bullets) :
           /\ [b.bullets[j] EXCEPT !.alive = TRUE] = [a.bullets[j] EXCEPT !.alive = TRUE]
           /\ b.bullets[j].alive => a.bullets[j].alive
    /\ Cardinality(Dead(b.zombies) \ Dead(a.zombies))
           = Cardinality(Dead(b.bullets) \ Dead(a.bullets))
    /\ b.score = a.score + 10 * Cardinality(Dead(b.zombies) \ Dead(a.zombies))
    /\ b.killedThisWave
           = a.killedThisWave + Cardinality(Dead(b.zombies) \ Dead(a.zombies))
    /\ \A i \in Dead(b.zombies) \ Dead(a.zombies) :
           \E j \in Dead(b.bullets) \ Dead(a.bullets) :
               Overlap(a.zombies[i], a.bullets[j])
    /\ \A j \in Dead(b.bullets) \ Dead(a.bullets) :
           \E i \in Dead(b.zombies) \ Dead(a.zombies) :
               Overlap(a.zombies[i], a.bullets[j])
    /\ \A i \in 1 .. Len(b.zombies) : \A j \in 1 .. Len(b.bullets) :
           (b.zombies[i].alive /\ b.bullets[j].alive)
               => ~Overlap(b.zombies[i], b.bullets[j])
\* two enemies 10 px apart or far apart, two projectiles between them, on one of
\* them or away from both, the first projectile possibly expired already
CrowdZombies ==
    {<<NewZombie(Vec(1000, 1000), zombieSpeed), NewZombie(p, zombieSpeed)>> :
        p \in {Vec(1100, 1000), Vec(1000, 1000), Vec(3000, 1000)}}
CrowdBullets ==
    {<<[NewBullet(p, Vec(0, 0)) EXCEPT !.alive = l], NewBullet(q, Vec(0, 0))>> :
        p \in {Vec(1050, 1000), Vec(4000, 1000)},
        q \in {Vec(1050, 1000), Vec(1100, 1100), Vec(4000, 1000)},
        l \in BOOLEAN}
Crowd(zs, bs) == [Game EXCEPT !.zombies = zs, !.bullets = bs]
C15_CollisionPass ==
    /\ running =>
           \A dt \in DtSet : C15_PassOk(PassIn(dt), BulletsVsZombies(PassIn(dt), 1, 1))
    /\ now = 0 =>
           \A zs \in CrowdZombies : \A bs \in CrowdBullets :
               C15_PassOk(Crowd(zs, bs), BulletsVsZombies(Crowd(zs, bs), 1, 1))
\* the pass of the next frame kills an enemy while another projectile is in flight
C15_Witness ==
    /\ running /\ Len(bullets) >= 2 /\ Len(zombies) >= 2
    /\ Dead(BulletsVsZombies(PassIn(MaxDt), 1, 1).zombies) # {}
\* a step of the frame loop (the other steps set queuedShoot or clear firing)
IsFrame == queuedShoot' = FALSE /\ firing' = firing
\* this step created an enemy: spawn_zombie draws twice from the generator
Spawned == rnd'.n = rnd.n + 2

\* C16: never more enemies alive than simultaneousCap; an enemy is created only
\* with fewer enemies alive than the cap, and the wave number changes only with
\* no enemy in the arena.
C16_AliveAtMostCap ==
    /\ [](alive_zombies(zombies) <= simultaneousCap)
    /\ [][/\ rnd' # rnd => (Spawned /\ alive_zombies(zombies) < simultaneousCap')
          /\ currentWave' # currentWave => zombies = << >>]_vars
\* the cap is reached with enemies still to come
C16_Witness ==
    /\ alive_zombies(zombies) = simultaneousCap
    /\ pendingToSpawn > 0 /\ spawnTimer < 150

\* C17: a frame of a live run in the ACTIVE state with pendingToSpawn > 0 whose
\* spawnTimer is <= 0 after the decrement: with the live count at the cap or
\* above it creates no enemy, keeps pendingToSpawn and spawnedThisWave and sets
\* spawnTimer to 0.15 s; with the live count below the cap it creates exactly one
\* enemy, takes 1 from pendingToSpawn, adds 1 to spawnedThisWave and sets
\* spawnTimer to spawnInterval.
C17_SpawnDecision ==
    [][(IsFrame /\ running /\ ~inIntermission /\ pendingToSpawn > 0
           /\ spawnTimer - StepDt <= 0) =>
          IF alive_zombies(zombies) >= simultaneousCap
          THEN /\ rnd' = rnd
               /\ Len(zombies') <= Len(zombies)
               /\ pendingToSpawn' = pendingToSpawn
               /\ spawnedThisWave' = spawnedThisWave
               /\ spawnTimer' = 150
          ELSE /\ Spawned
               /\ Len(zombies') <= Len(zombies) + 1
               /\ pendingToSpawn' = pendingToSpawn - 1
               /\ spawnedThisWave' = spawnedThisWave + 1
               /\ spawnTimer' = spawnInterval]_vars
\* the frame just run was blocked by the cap
C17_Witness ==
    /\ running /\ ~inIntermission /\ pendingToSpawn > 0
    /\ alive_zombies(zombies) = simultaneousCap /\ spawnTimer = 150

\* C19: spawnedThisWave never exceeds totalThisWave.
C19_SpawnedAtMostTotal == spawnedThisWave <= totalThisWave
\* the quota is out, the spawn timer has run down and the wave goes on
C19_Witness ==
    /\ running /\ ~inIntermission /\ spawnedThisWave = totalThisWave
    /\ spawnTimer <= 0 /\ zombies # << >>

\* C20: the shooting step (lines 676-681) of the next frame creates at most one
\* projectile, and creates it exactly when a request is queued and the cooldown
\* is 0 after the frame's decrement; otherwise it leaves the cooldown as the
\* decrement left it; it sets the cooldown to 0.15 s when it fires; and the ends of
\* two frames that create a projectile are at least 0.15 s of simulated time apart.
\* the game as the shooting step of the next frame finds it
ShootIn(dt) ==
    StepInput(StepIntermission(Game, dt, baseZombieSpeed, baseSpawnInterval),
              dt, kstate, mouse.x, mouse.y)
\* a is the game before the shooting step, b the game after it
C20_ShotOk(a, b, dt) ==
    /\ a.player.shootTimer = Max(0, player.shootTimer - dt)
    /\ Len(b.bullets) \in {Len(a.bullets), Len(a.bullets) + 1}
    /\ SubSeq(b.bullets, 1, Len(a.bullets)) = a.bullets
    /\ Len(b.bullets) > Len(a.bullets) <=> (a.queuedShoot /\ a.player.shootTimer = 0)
    /\ b.player.shootTimer
           = IF Len(b.bullets) > Len(a.bullets) THEN 150 ELSE a.player.shootTimer
C20_FireCooldown ==
    /\ [](running =>
            \A dt \in DtSet :
                C20_ShotOk(ShootIn(dt), StepShoot(ShootIn(dt), mouse.x, mouse.y), dt))
    /\ [][(lastShot' # lastShot /\ lastShot' >= 0) =>
              (lastShot < 0 \/ lastShot' - lastShot >= 150)]_vars
\* a second projectile has been created, and a request is waiting out the cooldown
C20_Witness ==
    /\ running /\ queuedShoot /\ player.shootTimer > MaxDt
    /\ Len(bullets) >= 2 /\ lastShot > 150 /\ surviveTime > lastShot
\* C18: from a state of a live run in the ACTIVE state with k > 0 enemies still
\* to spawn, fewer enemies alive than the cap, and enough of the followed time
\* left for the spawn timer to run out, frames of positive dt lead to a state
\* where an enemy has been spawned (fewer than k are left to spawn), unless the
\* run ends or the cap is reached first.
C18_Starving(k) ==
    /\ running /\ ~inIntermission /\ pendingToSpawn = k
    /\ alive_zombies(zombies) < simultaneousCap
    /\ now + spawnTimer <= MaxTime
C18_Fed(k) ==
    pendingToSpawn < k \/ ~running \/ alive_zombies(zombies) >= simultaneousCap
C18_NoSpawnStarvation ==
    \A k \in 1 .. (WaveBaseTotal + WaveTotalStep) : C18_Starving(k) ~> C18_Fed(k)
\* the cap was reached, an enemy was eliminated, and the next one has just come
C18_Witness ==
    /\ running /\ spawnedThisWave > simultaneousCap /\ pendingToSpawn > 0
    /\ spawnTimer = spawnInterval


\* C21: a frame that finds the run alive ends with no request queued, whether or
\* not it fired; and a frame creates a projectile only with a request queued at
\* its start, so a request the cooldown refused never fires later without a new
\* mouse-down event.
C21_RequestConsumed ==
    [][/\ (running /\ firing' = firing /\ queuedShoot) => ~queuedShoot'
       /\ (running /\ ~queuedShoot /\ ~queuedShoot') => Len(bullets') <= Len(bullets)
       /\ (lastShot' # lastShot /\ lastShot' >= 0) => queuedShoot]_vars
\* the frame just run refused a request: the user is still clicking, so the
\* frame found a request, and the cooldown is running but was not restarted
C21_Witness ==
    /\ running /\ firing /\ ~queuedShoot /\ now > 0
    /\ player.shootTimer > 0 /\ player.shootTimer < ShootCooldown


\* C22: every frame leaves only alive entities in the enemy and projectile
\* collections (the frame that ends the run included), and nothing leaves either
\* collection before the collisions of the frame are over: up to the cleanup the
\* collections only grow, and the entities marked dead are still in them.
\* the game as the cleanup of the next frame finds it
CleanupIn(dt) ==
    Collide(Before(Game, dt, kstate, mouse.x, mouse.y,
                   baseZombieSpeed, baseSpawnInterval), dt)
\* c is the game after the collisions, d the game after the cleanup
C22_Kept(c, d) ==
    /\ Len(c.zombies) >= Len(zombies) /\ Len(c.bullets) >= Len(bullets)
    /\ \A i \in 1 .. Len(zombies) : c.zombies[i].speed = zombies[i].speed
    /\ \A j \in 1 .. Len(bullets) : c.bullets[j].age >= bullets[j].age
    /\ Len(d.zombies) = Len(c.zombies) - Cardinality(Dead(c.zombies))
    /\ Len(d.bullets) = Len(c.bullets) - Cardinality(Dead(c.bullets))
    /\ Dead(d.zombies) = {} /\ Dead(d.bullets) = {}
C22_Frame(c) == C22_Kept(c, StepCleanup(c))
C22_MarkThenReap ==
    /\ Dead(zombies) = {} /\ Dead(bullets) = {}
    /\ running => \A dt \in DtSet : C22_Frame(CleanupIn(dt))
\* an enemy has been shot and reaped, and the collisions of the next frame mark
\* an enemy and a projectile dead, with others staying
C22_Witness ==
    /\ running /\ score > 0 /\ Len(zombies) >= 2 /\ Len(bullets) >= 2
    /\ Dead(CleanupIn(MaxDt).zombies) # {} /\ Dead(CleanupIn(MaxDt).bullets) # {}


\* C23: at the end of every frame every projectile in the collection has
\* age < lifetime = 1.2 s; and a projectile whose age reaches its lifetime in a
\* frame is dead when the collision pass starts, so the pass kills the same
\* enemies and adds the same score as it does without that projectile. This
\* is checked for the next frame of every reachable state and for an enemy under
\* one or two projectiles of ages around the lifetime.
Young(bs) == SelectSeq(bs, LAMBDA b : b.age < b.lifetime)
\* a is the game before the collision pass, b the game after it, c the game
\* after the pass run without the projectiles that have reached their lifetime
C23_ExpiryOk(a, b, c) ==
    /\ \A j \in 1 .. Len(a.bullets) :
           a.bullets[j].age >= a.bullets[j].lifetime => ~a.bullets[j].alive
    /\ b.zombies = c.zombies /\ b.score = c.score
    /\ b.killedThisWave = c.killedThisWave
    /\ Young(a.bullets) = << >> => (b.zombies = a.zombies /\ b.score = a.score)
C23_Pass(a) ==
    C23_ExpiryOk(a, BulletsVsZombies(a, 1, 1),
                 BulletsVsZombies([a EXCEPT !.bullets = Young(@)], 1, 1))
OldBullets ==
    {<<[NewBullet(Vec(1000, 1000), Vec(0, 0)) EXCEPT !.age = t]>> :
        t \in {1166, 1167, 1199}}
    \cup {<<[NewBullet(Vec(1000, 1000), Vec(0, 0)) EXCEPT !.age = t],
            NewBullet(Vec(1000, 1000), Vec(0, 0))>> : t \in {1166, 1167}}
C23_BulletLifetime ==
    /\ \A j \in 1 .. Len(bullets) :
           /\ bullets[j].lifetime = 1200
           /\ bullets[j].age >= 0 /\ bullets[j].age < bullets[j].lifetime
    /\ running => \A dt \in DtSet : C23_Pass(PassIn(dt))
    /\ now = 0 =>
           \A bs \in OldBullets : \A dt \in DtSet :
               C23_Pass(StepEntities(
                   Crowd(<<NewZombie(Vec(1000, 1000), zombieSpeed)>>, bs), dt))
\* the next frame takes a projectile to its lifetime, with a younger one in
\* flight and enemies in the arena
C23_Witness ==
    /\ running /\ zombies # << >>
    /\ \E j \in 1 .. Len(bullets) : bullets[j].age + MaxDt >= bullets[j].lifetime
    /\ \E j \in 1 .. Len(bullets) : bullets[j].age + MaxDt < bullets[j].lifetime


\* C24: a step creates at most one enemy: the generator is drawn from twice or
\* not at all, the enemy collection grows by at most one, and spawnedThisWave
\* and pendingToSpawn move by at most one within a wave; and a frame that
\* creates an enemy leaves a spawn timer longer than one frame, so the next
\* frame creates none, however many enemies are pending under the cap.
C24_OneSpawnPerFrame ==
    [][/\ rnd' = rnd \/ Spawned
       /\ Len(zombies') <= Len(zombies) + 1
       /\ currentWave' = currentWave =>
              /\ spawnedThisWave' - spawnedThisWave \in {0, 1}
              /\ pendingToSpawn - pendingToSpawn' \in {0, 1}
       /\ Spawned =>
              /\ alive_zombies(zombies') <= alive_zombies(zombies) + 1
              /\ spawnTimer' = spawnInterval' /\ spawnTimer' > MaxDt]_vars
\* the cap has blocked the spawner (only the retry delay of 0.15 s counts down
\* to 0.018 s in frames of 0.033 s), an enemy has gone since, and the next
\* frame of positive dt finds the timer run out with room under the cap
C24_Witness ==
    /\ running /\ ~inIntermission /\ pendingToSpawn > 0
    /\ spawnedThisWave >= simultaneousCap
    /\ spawnTimer = RetryDelay - 4 * MaxDt
    /\ alive_zombies(zombies) < simultaneousCap


\* C25: in every reachable state pendingToSpawn + spawnedThisWave =
\* totalThisWave and pendingToSpawn >= 0; and the three counters change only in
\* a step that starts the next wave or creates an enemy.
C25_QuotaSum ==
    /\ [](pendingToSpawn + spawnedThisWave = totalThisWave /\ pendingToSpawn >= 0)
    /\ [][<<pendingToSpawn, spawnedThisWave, totalThisWave>>'
              # <<pendingToSpawn, spawnedThisWave, totalThisWave>>
          => \/ currentWave' = currentWave + 1 /\ spawnedThisWave' = 0
             \/ Spawned /\ totalThisWave' = totalThisWave]_vars
\* the second wave has been started and has had enemies created, others pending
C25_Witness ==
    currentWave = 2 /\ spawnedThisWave > 0 /\ pendingToSpawn > 0


\* C26: in every reachable state 0 <= killedThisWave <= spawnedThisWave, indeed
\* killedThisWave plus the enemies in the arena is at most spawnedThisWave; within
\* a wave a step counts at most as many kills as enemies leave the arena; a wave
\* starts with no enemy in the arena and no kill counted; and the fill of the
\* wave progress bar is within [0, 1] before it is clamped.
\* Game::draw_hud, line 893, in thousandths
WaveProgress ==
    IF totalThisWave > 0 THEN (killedThisWave * 1000) \div totalThisWave ELSE 0
C26_KillsAtMostSpawned ==
    /\ [](/\ 0 <= killedThisWave /\ killedThisWave <= spawnedThisWave
          /\ killedThisWave + Len(zombies) <= spawnedThisWave
          /\ WaveProgress >= 0 /\ WaveProgress <= 1000
          /\ Clamp(WaveProgress, 0, 1000) = WaveProgress)
    /\ [][IF currentWave' = currentWave
          THEN /\ killedThisWave' >= killedThisWave
               /\ killedThisWave' - killedThisWave
                      <= Len(zombies) + (spawnedThisWave' - spawnedThisWave) - Len(zombies')
          ELSE zombies = << >> /\ zombies' = << >> /\ killedThisWave' = 0]_vars
\* every enemy of the wave has been created and shot: the bar is full
C26_Witness ==
    /\ spawnedThisWave > 0 /\ killedThisWave = spawnedThisWave
    /\ WaveProgress = 1000 /\ score >= KillScore * killedThisWave
====
